---- MODULE Spec2Model ----
(***************************************************************************)
(* Model of the storage benchmark in src/main.py: main, run_benchmark,     *)
(* write, read, clear and format, over a directory modelled as a function  *)
(* from entry names to byte sequences; parse_size and format are also      *)
(* applied on their own (PureSpec).                                        *)
(*                                                                         *)
(* hashlib.sha1 is a library function; it is modelled as an ideal hash:    *)
(* distinct contents get distinct digests and no XOR of digests of         *)
(* distinct contents is zero (each content sets its own bit of the         *)
(* 20-byte digest).  The XOR fold, the hex rendering and every comparison  *)
(* are computed as the code computes them.                                 *)
(***************************************************************************)
EXTENDS Integers, Sequences, FiniteSets, TLC

\* ------------------------------------------------------------- bounds
MaxBytes == 2       \* options.size * options.count is at most MaxBytes
MaxCount == 2       \* options.count ranges over 0..MaxCount
MaxIter == 2        \* options.iterations ranges over 0..MaxIter
MaxFiles == 4       \* options.count * options.iterations is at most MaxFiles
MaxDigits == 18     \* the numbers given to parse_size have at most MaxDigits digits

\* ---------------------------------------------------- program constants
DigestLen == 20     \* bytes(20), the size of a SHA-1 digest
KiB == 1024         \* the base of the units of format
MantissaBits == 53  \* the significant bits of a Python float (IEEE double)

ByteValues == {0, 1}            \* the byte values os.urandom may draw
TickValues == {0, 1}            \* what one time.time() difference may measure
None == <<>>                    \* Python's None (no hex digest is empty)

Min(a, b) == IF a < b THEN a ELSE b

\* ------------------------------------------------------------ the directory
\* f'{i}.bin'
Path(i) == <<"bin", i>>
Other == <<"other", 0>>
Names == {Path(k) : k \in 0 .. MaxCount - 1} \cup {Other}
\* byte strings of length at most n
RECURSIVE BytesUpTo(_)
BytesUpTo(n) ==
    IF n = 0 THEN {<<>>}
    ELSE LET S == BytesUpTo(n - 1)
         IN S \cup {Append(s, b) : s \in {t \in S : Len(t) = n - 1}, b \in ByteValues}
BytesOfLen(n) == {s \in BytesUpTo(n) : Len(s) = n}
\* what an entry that is in the directory before the run may hold
PreContents == {<<1>>}
\* what a change from outside makes of content c: its last byte is cut off, or
\* a byte is added to an empty file
Changed(c) == IF c = <<>> THEN <<0>> ELSE SubSeq(c, 1, Len(c) - 1)
\* the entries that may be in the directory before the run
PreNames == {Path(0), Other}
\* a removal that removes nothing
Remove_none(f, name) == f
\* the directory without entry name
Remove(f, name) == [n \in DOMAIN f \ {name} |-> f[n]]
\* a write that leaves the content of an entry that is there as it is
Put_keep(f, name, c) == [n \in DOMAIN f \cup {name} |-> IF n \in DOMAIN f THEN f[n] ELSE c]
\* the directory with entry name holding content c
Put(f, name, c) == [n \in DOMAIN f \cup {name} |-> IF n = name THEN c ELSE f[n]]
EmptyDir == [n \in {} |-> <<>>]

\* ------------------------------------------------------------ digests
RECURSIVE XorInt(_, _)
\* x ^ y on two bytes
XorInt(x, y) ==
    IF x = 0 THEN y
    ELSE IF y = 0 THEN x
    ELSE (((x % 2) + (y % 2)) % 2) + 2 * XorInt(x \div 2, y \div 2)
\* bytes(20)
ZeroDigest == [k \in 1 .. DigestLen |-> 0]
\* combine with the bytes subtracted instead of XOR-ed
combine_sub(a, b) == [k \in 1 .. Min(Len(a), Len(b)) |-> (a[k] - b[k]) % 256]
\* bytes(x ^ y for x, y in zip(final_hash, inner_hash.digest()))
combine(a, b) == [k \in 1 .. Min(Len(a), Len(b)) |-> XorInt(a[k], b[k])]
RECURSIVE ContentIndex(_)
\* an injective numbering of byte strings (bijective base-|ByteValues| numeration)
ContentIndex(c) ==
    IF c = <<>> THEN 0
    ELSE 1 + c[1] + Cardinality(ByteValues) * ContentIndex(Tail(c))
\* hashlib.sha1 over the bytes fed to update(), as an ideal hash: content c sets
\* bit ContentIndex(c) of the digest
Sha1(c) ==
    LET idx == ContentIndex(c)
    IN [k \in 1 .. DigestLen |->
           IF k = (idx \div 8) + 1 THEN 2 ^ (idx % 8) ELSE 0]
HexDigits == <<"0", "1", "2", "3", "4", "5", "6", "7",
               "8", "9", "a", "b", "c", "d", "e", "f">>
\* bytes.hex(): two lowercase hex digits per byte
hex(d) ==
    [k \in 1 .. 2 * Len(d) |->
        IF k % 2 = 1 THEN HexDigits[(d[(k + 1) \div 2] \div 16) + 1]
        ELSE HexDigits[(d[k \div 2] % 16) + 1]]

\* ------------------------------------------------------------ format
RECURSIVE LessThanPow(_, _)
\* n < 1024 ** k for a natural n, without computing 1024 ** k
LessThanPow(n, k) ==
    IF k = 0 THEN n < 1 ELSE LessThanPow(n \div KiB, k - 1)
\* the (unit_size, unit) list of format, unit_size = 1024 ** exp
formats == <<[exp |-> 4, unit |-> "TiB"],
             [exp |-> 3, unit |-> "GiB"],
             [exp |-> 2, unit |-> "MiB"],
             [exp |-> 1, unit |-> "KiB"],
             [exp |-> 0, unit |-> "B"]>>
\* format(num / den) for num >= 0, den > 0: the first unit with
\* number >= unit_size, or ValueError when there is none.  number < unit_size
\* iff floor(number) < unit_size, unit_size being an integer.
format(num, den) ==
    LET ok == {k \in 1 .. Len(formats) : ~LessThanPow(num \div den, formats[k].exp)}
    IN IF ok = {} THEN [raises |-> "ValueError", unit |-> "", exp |-> 0]
       ELSE LET k == CHOOSE j \in ok : \A l \in ok : j <= l
            IN [raises |-> "", unit |-> formats[k].unit, exp |-> formats[k].exp]

\* ------------------------------------------------------------ parse_size
\* Python's int has no width and a float is an IEEE double: a byte count is
\* modelled as its sequence of bits, lowest first, with no leading zero (0 is
\* <<>>), and a float as the integer it holds, rounded to 53 significant bits.
RECURSIVE Bits(_)
\* the bits of a small natural number
Bits(n) == IF n = 0 THEN <<>> ELSE <<n % 2>> \o Bits(n \div 2)
RECURSIVE MulAdd(_, _, _)
\* b * k + c on bits b, for small naturals k >= 1 and c
MulAdd(b, k, c) ==
    IF b = <<>> THEN Bits(c)
    ELSE LET t == b[1] * k + c
         IN <<t % 2>> \o MulAdd(Tail(b), k, t \div 2)
RECURSIVE Times(_, _, _)
\* b * base ** exp
Times(b, base, exp) ==
    IF exp = 0 THEN b ELSE Times(MulAdd(b, base, 0), base, exp - 1)
\* the round-to-nearest, ties-to-even of an integer to a double
Round53(b) ==
    IF Len(b) <= MantissaBits THEN b
    ELSE LET drop == Len(b) - MantissaBits
             high == SubSeq(b, drop + 1, Len(b))
             half == b[drop] = 1
             sticky == \E j \in 1 .. drop - 1 : b[j] = 1
             up == half /\ (sticky \/ high[1] = 1)
         IN [k \in 1 .. drop |-> 0] \o (IF up THEN MulAdd(high, 1, 1) ELSE high)

DigitChars == <<"0", "1", "2", "3", "4", "5", "6", "7", "8", "9">>
IsDigits(t) == t # <<>> /\ \A k \in 1 .. Len(t) : \E v \in 1 .. 10 : DigitChars[v] = t[k]
DigitValue(c) == (CHOOSE v \in 1 .. 10 : DigitChars[v] = c) - 1
RECURSIVE Decimal(_, _)
\* the value of the decimal digits ds read after a number acc
Decimal(ds, acc) ==
    IF ds = <<>> THEN acc
    ELSE Decimal(Tail(ds), MulAdd(acc, 10, DigitValue(Head(ds))))
\* int(text) of a text of digits and unit letters: the exact value, ValueError
\* when the text is not a run of digits
int(t) ==
    IF IsDigits(t) THEN [raises |-> "", value |-> Decimal(t, <<>>)]
    ELSE [raises |-> "ValueError", value |-> <<>>]
\* float(text) of a text of digits and unit letters: the double nearest to the
\* value, ValueError when the text is not a run of digits
float(t) ==
    IF IsDigits(t) THEN [raises |-> "", value |-> Round53(Decimal(t, <<>>))]
    ELSE [raises |-> "ValueError", value |-> <<>>]

\* str.lower on the letters of the units
lower(text) ==
    [k \in 1 .. Len(text) |->
        CASE text[k] = "B" -> "b" [] text[k] = "K" -> "k" [] text[k] = "I" -> "i"
          [] text[k] = "M" -> "m" [] text[k] = "G" -> "g" [] text[k] = "T" -> "t"
          [] OTHER -> text[k]]
\* str.endswith
endswith(text, unit) ==
    /\ Len(text) >= Len(unit)
    /\ SubSeq(text, Len(text) - Len(unit) + 1, Len(text)) = unit

\* the list with the single-letter unit first
parse_formats_b_first ==
    <<[base |-> 1, exp |-> 1, unit |-> <<"b">>],
      [base |-> 1000, exp |-> 4, unit |-> <<"t", "b">>],
      [base |-> KiB, exp |-> 4, unit |-> <<"t", "i", "b">>],
      [base |-> 1000, exp |-> 3, unit |-> <<"g", "b">>],
      [base |-> KiB, exp |-> 3, unit |-> <<"g", "i", "b">>],
      [base |-> 1000, exp |-> 2, unit |-> <<"m", "b">>],
      [base |-> KiB, exp |-> 2, unit |-> <<"m", "i", "b">>],
      [base |-> 1000, exp |-> 1, unit |-> <<"k", "b">>],
      [base |-> KiB, exp |-> 1, unit |-> <<"k", "i", "b">>]>>
\* the (size, unit) list of parse_size, size = base ** exp
parse_formats ==
    <<[base |-> 1000, exp |-> 4, unit |-> <<"t", "b">>],
      [base |-> KiB, exp |-> 4, unit |-> <<"t", "i", "b">>],
      [base |-> 1000, exp |-> 3, unit |-> <<"g", "b">>],
      [base |-> KiB, exp |-> 3, unit |-> <<"g", "i", "b">>],
      [base |-> 1000, exp |-> 2, unit |-> <<"m", "b">>],
      [base |-> KiB, exp |-> 2, unit |-> <<"m", "i", "b">>],
      [base |-> 1000, exp |-> 1, unit |-> <<"k", "b">>],
      [base |-> KiB, exp |-> 1, unit |-> <<"k", "i", "b">>],
      [base |-> 1, exp |-> 1, unit |-> <<"b">>]>>

\* parse_size(text): the first unit of the list the lowered text ends with
\* decides; int(float(prefix) * size), the product rounded as a double; with no
\* unit, int(text)
parse_size(text) ==
    LET t == lower(text)
        ok == {k \in 1 .. Len(parse_formats) : endswith(t, parse_formats[k].unit)}
    IN IF ok = {} THEN int(t)
       ELSE LET k == CHOOSE j \in ok : \A l \in ok : j <= l
                f == parse_formats[k]
                number == float(SubSeq(t, 1, Len(t) - Len(f.unit)))
            IN IF number.raises # "" THEN number
               ELSE [raises |-> "",
                     value |-> Round53(Times(number.value, f.base, f.exp))]

VARIABLES
    options,        \* the parsed arguments (argparse.Namespace)
    write_dt,       \* what post_write - pre_write measures for a write phase
    read_dt,        \* what post_read - pre_read measures for a read phase
    fs,             \* the directory: entry name -> content
    temp_dir,       \* TRUE while the TemporaryDirectory of main exists
    pc,             \* the position of the process
    exc,            \* the exception that is propagating or ended the process
    ret,            \* where clear returns to
    iteration,      \* the loop index of run_benchmark
    write_hash, read_hash,
    write_hashes, read_hashes,
    elapsed_write, elapsed_read,
    files,          \* the paths write() created and run_benchmark must remove
    final_hash,     \* the running aggregate of write() / read()
    i,              \* the loop index of write()
    to_write,       \* bytes left to write to the file being written
    inner_hash,     \* the bytes fed to the sha1 object of the current file
    path,           \* the file that is open
    offset,         \* the read position in the open file
    todo,           \* what the running for-loop over a listing or a set has left
    reported,       \* TRUE once the report has been printed
    fs0,            \* history: the directory before the run
    created,        \* history: name -> number of times write() created it
    removed,        \* history: name -> number of times run_benchmark removed it
    written,        \* history: name -> content as the last write phase wrote it
    emptyAtWrite,   \* history: the last write phase started in an empty directory
    tampered,       \* history: names changed from outside since the last write phase
    tamper_done,    \* history: a file has been changed from outside in this run
    vanished,       \* history: an entry was removed from outside during a read phase
    call,           \* the function applied on its own, with its argument
    result          \* what that function returned or raised

\* what no step changes
conf == <<options, write_dt, read_dt, fs0, call, result>>

vars ==
    <<options, write_dt, read_dt, fs, temp_dir, pc, exc, ret, iteration,
      write_hash, read_hash, write_hashes, read_hashes, elapsed_write,
      elapsed_read, files, final_hash, i, to_write, inner_hash, path,
      offset, todo, reported, fs0, created, removed, written, emptyAtWrite,
      tampered, tamper_done, vanished, call, result>>

\* the configurations checked: a buffer larger than the file behaves as one of
\* the file's size, so buffer_size stops at max(size, 1)
Options ==
    {o \in [size : 0 .. MaxBytes, count : 0 .. MaxCount,
            buffer_size : 0 .. MaxBytes, iterations : 0 .. MaxIter,
            empty : BOOLEAN, write_once : BOOLEAN, dir : {"None", "dir"}] :
        /\ o.size * o.count <= MaxBytes
        /\ o.count * o.iterations <= MaxFiles
        /\ o.buffer_size <= IF o.size = 0 THEN 1 ELSE o.size}

PreDirs ==
    UNION {[S -> PreContents] : S \in SUBSET PreNames}

\* the locals of main, run_benchmark, write, read and clear, and the history,
\* before main has taken a step
Locals0 ==
    /\ temp_dir = FALSE
    /\ exc = ""
    /\ ret = ""
    /\ iteration = 0
    /\ write_hash = None
    /\ read_hash = None
    /\ write_hashes = {}
    /\ read_hashes = {}
    /\ elapsed_write = 0
    /\ elapsed_read = 0
    /\ files = {}
    /\ final_hash = ZeroDigest
    /\ i = 0
    /\ to_write = 0
    /\ inner_hash = <<>>
    /\ path = Other
    /\ offset = 0
    /\ todo = {}
    /\ reported = FALSE
    /\ created = [n \in Names |-> 0]
    /\ removed = [n \in Names |-> 0]
    /\ written = EmptyDir
    /\ emptyAtWrite = FALSE
    /\ tampered = {}
    /\ tamper_done = FALSE
    /\ vanished = FALSE

Init ==
    /\ options \in Options
    /\ write_dt \in TickValues
    /\ read_dt \in TickValues
    /\ fs \in (IF options.dir = "None" THEN {EmptyDir} ELSE PreDirs)
    /\ fs0 = fs
    /\ pc = "main"
    /\ Locals0
    /\ call = [fn |-> "main"]
    /\ result = None


\* ------------------------------------------------------------ exceptions
\* the temporary directory made with no removal on exit
Cleanup_leak == UNCHANGED <<temp_dir, fs>>
\* TemporaryDirectory.__exit__: the directory and all it holds are removed
Cleanup ==
    /\ temp_dir' = FALSE
    /\ fs' = EmptyDir

\* No function of main.py catches an exception: one raised anywhere drops the
\* frames of write, read and clear, propagates out of run_benchmark, leaves the
\* with block of main when there is one, and ends the process with a traceback.
Raise(e) ==
    /\ pc' = "exit"
    /\ exc' = e
    /\ IF temp_dir THEN Cleanup ELSE UNCHANGED <<temp_dir, fs>>
    /\ ret' = ""
    /\ final_hash' = ZeroDigest
    /\ i' = 0
    /\ to_write' = 0
    /\ inner_hash' = <<>>
    /\ path' = Other
    /\ offset' = 0
    /\ todo' = {}
    /\ UNCHANGED <<conf, iteration, write_hash, read_hash, write_hashes,
                   read_hashes, elapsed_write, elapsed_read, files, reported,
                   created, removed, written, emptyAtWrite, tampered,
                   tamper_done, vanished>>

\* ------------------------------------------------------------ main
\* main: parse_args, then the TemporaryDirectory when no directory is given
Main ==
    /\ pc = "main"
    /\ temp_dir' = (options.dir = "None")
    /\ pc' = "run_benchmark"
    /\ UNCHANGED <<conf, fs, exc, ret, iteration, write_hash, read_hash,
                   write_hashes, read_hashes, elapsed_write, elapsed_read,
                   files, final_hash, i, to_write, inner_hash, path, offset,
                   todo, reported, created, removed, written, emptyAtWrite,
                   tampered, tamper_done, vanished>>

\* run_benchmark with the call of clear left out
RunBenchmark_noclear ==
    /\ pc = "run_benchmark"
    /\ pc' = "loop"
    /\ write_hashes' = {}
    /\ read_hashes' = {}
    /\ elapsed_write' = 0
    /\ elapsed_read' = 0
    /\ write_hash' = None
    /\ files' = {}
    /\ UNCHANGED <<conf, fs, temp_dir, exc, ret, iteration, read_hash,
                   final_hash, i, to_write, inner_hash, path, offset, todo,
                   reported, created, removed, written, emptyAtWrite, tampered,
                   tamper_done, vanished>>

\* run_benchmark up to its loop: clear(directory) if options.empty, the locals
RunBenchmark ==
    /\ pc = "run_benchmark"
    /\ IF options.empty
       THEN pc' = "clear_list" /\ ret' = "loop"
       ELSE pc' = "loop" /\ ret' = ret
    /\ write_hashes' = {}
    /\ read_hashes' = {}
    /\ elapsed_write' = 0
    /\ elapsed_read' = 0
    /\ write_hash' = None
    /\ files' = {}
    /\ UNCHANGED <<conf, fs, temp_dir, exc, iteration, read_hash, final_hash, i,
                   to_write, inner_hash, path, offset, todo, reported, created,
                   removed, written, emptyAtWrite, tampered, tamper_done,
                   vanished>>

\* ------------------------------------------------------------ clear
\* clear: os.listdir(directory)
ClearList ==
    /\ pc = "clear_list"
    /\ \/ /\ todo' = DOMAIN fs
          /\ pc' = "clear"
          /\ UNCHANGED <<conf, fs, temp_dir, exc, ret, iteration, write_hash,
                         read_hash, write_hashes, read_hashes, elapsed_write,
                         elapsed_read, files, final_hash, i, to_write,
                         inner_hash, path, offset, reported, created, removed,
                         written, emptyAtWrite, tampered, tamper_done,
                         vanished>>
       \/ Raise("OSError")

\* clear: os.remove of the next listed entry
ClearRemove ==
    /\ pc = "clear"
    /\ \E f \in todo :
          \/ /\ f \in DOMAIN fs
             /\ fs' = Remove(fs, f)
             /\ todo' = todo \ {f}
             /\ UNCHANGED <<conf, temp_dir, pc, exc, ret, iteration, write_hash,
                            read_hash, write_hashes, read_hashes, elapsed_write,
                            elapsed_read, files, final_hash, i, to_write,
                            inner_hash, path, offset, reported, created,
                            removed, written, emptyAtWrite, tampered,
                            tamper_done, vanished>>
          \/ Raise("OSError")

\* clear returns when its loop is exhausted
ClearReturn ==
    /\ pc = "clear"
    /\ todo = {}
    /\ pc' = ret
    /\ UNCHANGED <<conf, fs, temp_dir, exc, ret, iteration, write_hash,
                   read_hash, write_hashes, read_hashes, elapsed_write,
                   elapsed_read, files, final_hash, i, to_write, inner_hash,
                   path, offset, todo, reported, created, removed, written,
                   emptyAtWrite, tampered, tamper_done, vanished>>

\* ------------------------------------------------------------ the loop
\* the write phase run in every iteration
ShouldWrite_always == TRUE
\* `if write_hash is None or not options.write_once`
ShouldWrite == write_hash = None \/ ~options.write_once

\* one pass of `for iteration in range(options.iterations)` up to the write
\* decision: write() is called when write_hash is None or not write_once
Iterate ==
    /\ pc = "loop"
    /\ iteration < options.iterations
    /\ IF ShouldWrite
       THEN /\ pc' = "write"
            /\ final_hash' = ZeroDigest
            /\ i' = 0
            /\ emptyAtWrite' = (DOMAIN fs = {})
            /\ written' = EmptyDir
            /\ tampered' = {}
       ELSE /\ pc' = "read_list"
            /\ UNCHANGED <<final_hash, i, emptyAtWrite, written, tampered>>
    /\ UNCHANGED <<conf, fs, temp_dir, exc, ret, iteration, write_hash,
                   read_hash, write_hashes, read_hashes, elapsed_write,
                   elapsed_read, files, to_write, inner_hash, path, offset,
                   todo, reported, created, removed, tamper_done, vanished>>

\* the removal after the loop run over the whole directory instead of files
LoopExit_all ==
    /\ pc = "loop"
    /\ iteration >= options.iterations
    /\ pc' = "final_cleanup"
    /\ todo' = DOMAIN fs
    /\ UNCHANGED <<conf, fs, temp_dir, exc, ret, iteration, write_hash,
                   read_hash, write_hashes, read_hashes, elapsed_write,
                   elapsed_read, files, final_hash, i, to_write, inner_hash,
                   path, offset, reported, created, removed, written,
                   emptyAtWrite, tampered, tamper_done, vanished>>

\* the loop is exhausted: on to the removal of the files left
LoopExit ==
    /\ pc = "loop"
    /\ iteration >= options.iterations
    /\ pc' = "final_cleanup"
    /\ todo' = files
    /\ UNCHANGED <<conf, fs, temp_dir, exc, ret, iteration, write_hash,
                   read_hash, write_hashes, read_hashes, elapsed_write,
                   elapsed_read, files, final_hash, i, to_write, inner_hash,
                   path, offset, reported, created, removed, written,
                   emptyAtWrite, tampered, tamper_done, vanished>>

\* ------------------------------------------------------------ write
\* no path taken to exist
exists_never(p) == FALSE
\* os.path.exists(path)
exists(p) == p \in DOMAIN fs

\* write: the next index of `for i in range(options.count)`: skipped when the
\* path exists, else opened 'wb' (created empty) and added to files_written
WriteNext ==
    /\ pc = "write"
    /\ i < options.count
    /\ IF exists(Path(i))
       THEN /\ i' = i + 1
            /\ UNCHANGED <<conf, fs, temp_dir, pc, exc, ret, iteration,
                           write_hash, read_hash, write_hashes, read_hashes,
                           elapsed_write, elapsed_read, files, final_hash,
                           to_write, inner_hash, path, offset, todo, reported,
                           created, removed, written, emptyAtWrite, tampered,
                           tamper_done, vanished>>
       ELSE \/ /\ fs' = Put(fs, Path(i), <<>>)
               /\ files' = files \cup {Path(i)}
               /\ created' = [created EXCEPT ![Path(i)] = @ + 1]
               /\ path' = Path(i)
               /\ to_write' = options.size
               /\ inner_hash' = <<>>
               /\ pc' = "write_chunk"
               /\ UNCHANGED <<conf, temp_dir, exc, ret, iteration, write_hash,
                              read_hash, write_hashes, read_hashes,
                              elapsed_write, elapsed_read, final_hash, i,
                              offset, todo, reported, removed, written,
                              emptyAtWrite, tampered, tamper_done, vanished>>
            \/ Raise("OSError")

\* write: one pass of `while to_write > 0`: a chunk of min(to_write,
\* buffer_size) random bytes is written and hashed
WriteChunk ==
    /\ pc = "write_chunk"
    /\ to_write > 0
    /\ \/ LET num_bytes == Min(to_write, options.buffer_size)
          IN \E file_content \in BytesOfLen(num_bytes) :
                /\ to_write' = to_write - num_bytes
                /\ fs' = Put(fs, path, fs[path] \o file_content)
                /\ inner_hash' = inner_hash \o file_content
                /\ UNCHANGED <<conf, temp_dir, pc, exc, ret, iteration,
                               write_hash, read_hash, write_hashes, read_hashes,
                               elapsed_write, elapsed_read, files, final_hash,
                               i, path, offset, todo, reported, created,
                               removed, written, emptyAtWrite, tampered,
                               tamper_done, vanished>>
       \/ Raise("OSError")

\* write: the file is flushed and closed, its digest folded into final_hash
WriteClose ==
    /\ pc = "write_chunk"
    /\ to_write <= 0
    /\ final_hash' = combine(final_hash, Sha1(inner_hash))
    /\ written' = Put(written, path, fs[path])
    /\ i' = i + 1
    /\ pc' = "write"
    /\ inner_hash' = <<>>
    /\ path' = Other
    /\ UNCHANGED <<conf, fs, temp_dir, exc, ret, iteration, write_hash,
                   read_hash, write_hashes, read_hashes, elapsed_write,
                   elapsed_read, files, to_write, offset, todo, reported,
                   created, removed, emptyAtWrite, tampered, tamper_done,
                   vanished>>

\* write returns final_hash.hex(); run_benchmark adds the time the call took
WriteReturn ==
    /\ pc = "write"
    /\ i >= options.count
    /\ write_hash' = hex(final_hash)
    /\ elapsed_write' = elapsed_write + write_dt
    /\ pc' = "read_list"
    /\ final_hash' = ZeroDigest
    /\ i' = 0
    /\ UNCHANGED <<conf, fs, temp_dir, exc, ret, iteration, read_hash,
                   write_hashes, read_hashes, elapsed_read, files, to_write,
                   inner_hash, path, offset, todo, reported, created, removed,
                   written, emptyAtWrite, tampered, tamper_done, vanished>>

\* ------------------------------------------------------------ the environment
\* Something outside the process changes the content of one file the write
\* phase wrote, after the write phase and before the read phase.
Tamper ==
    /\ pc = "read_list"
    /\ ~tamper_done
    /\ tamper_done' = TRUE
    /\ \E n \in DOMAIN written \cap DOMAIN fs :
          /\ fs' = Put(fs, n, Changed(fs[n]))
          /\ tampered' = tampered \cup {n}
    /\ UNCHANGED <<conf, temp_dir, pc, exc, ret, iteration, write_hash,
                   read_hash, write_hashes, read_hashes, elapsed_write,
                   elapsed_read, files, final_hash, i, to_write, inner_hash,
                   path, offset, todo, reported, created, removed, written,
                   emptyAtWrite, vanished>>

\* Something outside the process removes an entry right after read() has
\* listed the directory, before it opens the first entry.
Vanish ==
    /\ pc = "read"
    /\ ~vanished
    /\ todo = DOMAIN fs
    /\ \E n \in todo \cap DOMAIN fs : fs' = Remove(fs, n)
    /\ vanished' = TRUE
    /\ UNCHANGED <<conf, temp_dir, pc, exc, ret, iteration, write_hash,
                   read_hash, write_hashes, read_hashes, elapsed_write,
                   elapsed_read, files, final_hash, i, to_write, inner_hash,
                   path, offset, todo, reported, created, removed, written,
                   emptyAtWrite, tampered, tamper_done>>

\* ------------------------------------------------------------ read
\* read: final_hash = bytes(20) and os.listdir(directory)
ReadList ==
    /\ pc = "read_list"
    /\ \/ /\ todo' = DOMAIN fs
          /\ final_hash' = ZeroDigest
          /\ pc' = "read"
          /\ UNCHANGED <<conf, fs, temp_dir, exc, ret, iteration, write_hash,
                         read_hash, write_hashes, read_hashes, elapsed_write,
                         elapsed_read, files, i, to_write, inner_hash, path,
                         offset, reported, created, removed, written,
                         emptyAtWrite, tampered, tamper_done, vanished>>
       \/ Raise("OSError")

\* ReadOpen with a listed entry that is gone skipped instead of raising
ReadOpen_skip ==
    /\ pc = "read"
    /\ \E file_name \in todo :
          /\ todo' = todo \ {file_name}
          /\ IF file_name \in DOMAIN fs
             THEN /\ path' = file_name
                  /\ inner_hash' = <<>>
                  /\ offset' = 0
                  /\ pc' = "read_chunk"
             ELSE UNCHANGED <<path, inner_hash, offset, pc>>
          /\ UNCHANGED <<conf, fs, temp_dir, exc, ret, iteration, write_hash,
                         read_hash, write_hashes, read_hashes, elapsed_write,
                         elapsed_read, files, final_hash, i, to_write, reported,
                         created, removed, written, emptyAtWrite, tampered,
                         tamper_done, vanished>>

\* read: the next listed entry, in whatever order the listing yields, is
\* opened 'rb'; a listed entry that is gone raises FileNotFoundError
ReadOpen ==
    /\ pc = "read"
    /\ \E file_name \in todo :
          IF file_name \in DOMAIN fs
          THEN \/ /\ path' = file_name
                  /\ inner_hash' = <<>>
                  /\ offset' = 0
                  /\ todo' = todo \ {file_name}
                  /\ pc' = "read_chunk"
                  /\ UNCHANGED <<conf, fs, temp_dir, exc, ret, iteration,
                                 write_hash, read_hash, write_hashes,
                                 read_hashes, elapsed_write, elapsed_read,
                                 files, final_hash, i, to_write, reported,
                                 created, removed, written, emptyAtWrite,
                                 tampered, tamper_done, vanished>>
               \/ Raise("OSError")
          ELSE Raise("FileNotFoundError")

\* file.read asked for one byte less than the buffer size
ReadData_short ==
    SubSeq(fs[path], offset + 1, Min(Len(fs[path]), offset + options.buffer_size - 1))
\* file.read(options.buffer_size) on the unbuffered file
ReadData ==
    SubSeq(fs[path], offset + 1, Min(Len(fs[path]), offset + options.buffer_size))

\* read: one pass of `while data := file.read(buffer_size)` with data not empty
ReadChunk ==
    /\ pc = "read_chunk"
    /\ ReadData # <<>>
    /\ \/ /\ inner_hash' = inner_hash \o ReadData
          /\ offset' = offset + Len(ReadData)
          /\ UNCHANGED <<conf, fs, temp_dir, pc, exc, ret, iteration,
                         write_hash, read_hash, write_hashes, read_hashes,
                         elapsed_write, elapsed_read, files, final_hash, i,
                         to_write, path, todo, reported, created, removed,
                         written, emptyAtWrite, tampered, tamper_done,
                         vanished>>
       \/ Raise("OSError")

\* read: file.read returned b'': the file is closed and its digest folded in
ReadClose ==
    /\ pc = "read_chunk"
    /\ ReadData = <<>>
    /\ final_hash' = combine(final_hash, Sha1(inner_hash))
    /\ pc' = "read"
    /\ inner_hash' = <<>>
    /\ path' = Other
    /\ offset' = 0
    /\ UNCHANGED <<conf, fs, temp_dir, exc, ret, iteration, write_hash,
                   read_hash, write_hashes, read_hashes, elapsed_write,
                   elapsed_read, files, i, to_write, todo, reported, created,
                   removed, written, emptyAtWrite, tampered, tamper_done,
                   vanished>>

\* an add that adds nothing
add_none(S, x) == S
\* set.add
add(S, x) == S \cup {x}

\* the comparison inverted
differs_inverted(r, w) == r = w
\* `if read_hash != write_hash`
differs(r, w) == r # w

\* read returns final_hash.hex(); run_benchmark adds the time the call took and
\* records both digests when they differ
ReadReturn ==
    /\ pc = "read"
    /\ todo = {}
    /\ read_hash' = hex(final_hash)
    /\ elapsed_read' = elapsed_read + read_dt
    /\ IF differs(read_hash', write_hash)
       THEN /\ write_hashes' = add(write_hashes, write_hash)
            /\ read_hashes' = add(read_hashes, read_hash')
       ELSE UNCHANGED <<write_hashes, read_hashes>>
    /\ pc' = "cleanup"
    /\ todo' = files
    /\ final_hash' = ZeroDigest
    /\ UNCHANGED <<conf, fs, temp_dir, exc, ret, iteration, write_hash,
                   elapsed_write, files, i, to_write, inner_hash, path, offset,
                   reported, created, removed, written, emptyAtWrite, tampered,
                   tamper_done, vanished>>

\* ------------------------------------------------------------ removal
\* os.remove(file) for one file of `for file in files`
RemoveFile(f) ==
    \/ /\ f \in DOMAIN fs
       /\ fs' = Remove(fs, f)
       /\ removed' = [removed EXCEPT ![f] = @ + 1]
       /\ todo' = todo \ {f}
       /\ UNCHANGED <<conf, temp_dir, pc, exc, ret, iteration, write_hash,
                      read_hash, write_hashes, read_hashes, elapsed_write,
                      elapsed_read, files, final_hash, i, to_write, inner_hash,
                      path, offset, reported, created, written, emptyAtWrite,
                      tampered, tamper_done, vanished>>
    \/ Raise("OSError")

\* the files removed at the end of every iteration, write_once or not
KeepFiles_never == FALSE
\* `if not options.write_once` at the end of an iteration, negated
KeepFiles == options.write_once

\* run_benchmark, the end of an iteration: unless the files are kept, one file
\* of files is removed
IterRemove ==
    /\ pc = "cleanup"
    /\ ~KeepFiles
    /\ \E f \in todo : RemoveFile(f)

\* run_benchmark, the end of an iteration: files.clear() unless the files are
\* kept, and the loop goes to the next index
IterEnd ==
    /\ pc = "cleanup"
    /\ KeepFiles \/ todo = {}
    /\ files' = IF KeepFiles THEN files ELSE {}
    /\ todo' = {}
    /\ iteration' = iteration + 1
    /\ pc' = "loop"
    /\ UNCHANGED <<conf, fs, temp_dir, exc, ret, write_hash, read_hash,
                   write_hashes, read_hashes, elapsed_write, elapsed_read,
                   final_hash, i, to_write, inner_hash, path, offset, reported,
                   created, removed, written, emptyAtWrite, tampered,
                   tamper_done, vanished>>

\* run_benchmark after the loop: one file of files is removed
FinalRemove ==
    /\ pc = "final_cleanup"
    /\ \E f \in todo : RemoveFile(f)

\* run_benchmark after the loop: files.clear()
FinalEnd ==
    /\ pc = "final_cleanup"
    /\ todo = {}
    /\ files' = {}
    /\ pc' = "report"
    /\ UNCHANGED <<conf, fs, temp_dir, exc, ret, iteration, write_hash,
                   read_hash, write_hashes, read_hashes, elapsed_write,
                   elapsed_read, final_hash, i, to_write, inner_hash, path,
                   offset, todo, reported, created, removed, written,
                   emptyAtWrite, tampered, tamper_done, vanished>>

\* ------------------------------------------------------------ the report
total_size == options.size * options.count

\* what the report raises, "" when it prints: the two divisions by the elapsed
\* times, format on each rate, and the division by options.count, in the order
\* of the code
ReportRaises ==
    IF elapsed_write = 0 THEN "ZeroDivisionError"
    ELSE IF format(total_size, elapsed_write).raises # ""
         THEN format(total_size, elapsed_write).raises
    ELSE IF elapsed_read = 0 THEN "ZeroDivisionError"
    ELSE IF format(total_size, elapsed_read).raises # ""
         THEN format(total_size, elapsed_read).raises
    ELSE IF options.count = 0 THEN "ZeroDivisionError"
    ELSE ""

\* run_benchmark from the 100% progress line to its last print
Report ==
    /\ pc = "report"
    /\ IF ReportRaises # ""
       THEN Raise(ReportRaises)
       ELSE /\ reported' = TRUE
            /\ pc' = "returned"
            /\ UNCHANGED <<conf, fs, temp_dir, exc, ret, iteration, write_hash,
                           read_hash, write_hashes, read_hashes, elapsed_write,
                           elapsed_read, files, final_hash, i, to_write,
                           inner_hash, path, offset, todo, created, removed,
                           written, emptyAtWrite, tampered, tamper_done,
                           vanished>>

\* ------------------------------------------------------------ the end of main
\* main after run_benchmark returned: clear(temp_dir) inside the with block
\* when no directory was given
MainAfter ==
    /\ pc = "returned"
    /\ IF options.dir = "None"
       THEN pc' = "clear_list" /\ ret' = "with_exit"
       ELSE pc' = "exit" /\ ret' = ret
    /\ UNCHANGED <<conf, fs, temp_dir, exc, iteration, write_hash, read_hash,
                   write_hashes, read_hashes, elapsed_write, elapsed_read,
                   files, final_hash, i, to_write, inner_hash, path, offset,
                   todo, reported, created, removed, written, emptyAtWrite,
                   tampered, tamper_done, vanished>>

\* the with block of main is left normally
WithExit ==
    /\ pc = "with_exit"
    /\ Cleanup
    /\ pc' = "exit"
    /\ UNCHANGED <<conf, exc, ret, iteration, write_hash, read_hash,
                   write_hashes, read_hashes, elapsed_write, elapsed_read,
                   files, final_hash, i, to_write, inner_hash, path, offset,
                   todo, reported, created, removed, written, emptyAtWrite,
                   tampered, tamper_done, vanished>>

\* the exit status of the process
exit_code == IF exc = "" THEN 0 ELSE 1

Next ==
    \/ Main
    \/ RunBenchmark
    \/ ClearList
    \/ ClearRemove
    \/ ClearReturn
    \/ Iterate
    \/ LoopExit
    \/ WriteNext
    \/ WriteChunk
    \/ WriteClose
    \/ WriteReturn
    \/ Tamper
    \/ Vanish
    \/ ReadList
    \/ ReadOpen
    \/ ReadChunk
    \/ ReadClose
    \/ ReadReturn
    \/ IterRemove
    \/ IterEnd
    \/ FinalRemove
    \/ FinalEnd
    \/ Report
    \/ MainAfter
    \/ WithExit

Spec == Init /\ [][Next]_vars

\* the exceptions an I/O operation raises
IOErrors == {"OSError", "FileNotFoundError"}

\* step A taken with no I/O operation failing in it
NoFailure(A) == A /\ exc' \notin IOErrors

\* The steps of a run in which no I/O operation fails: no step raises the
\* exception of an I/O operation, and nothing outside removes a listed entry
\* (the open of a removed entry fails).
LiveNext ==
    \/ NoFailure(Main)
    \/ NoFailure(RunBenchmark)
    \/ NoFailure(ClearList)
    \/ NoFailure(ClearRemove)
    \/ NoFailure(ClearReturn)
    \/ NoFailure(Iterate)
    \/ NoFailure(LoopExit)
    \/ NoFailure(WriteNext)
    \/ NoFailure(WriteChunk)
    \/ NoFailure(WriteClose)
    \/ NoFailure(WriteReturn)
    \/ NoFailure(Tamper)
    \/ NoFailure(ReadList)
    \/ NoFailure(ReadOpen)
    \/ NoFailure(ReadChunk)
    \/ NoFailure(ReadClose)
    \/ NoFailure(ReadReturn)
    \/ NoFailure(IterRemove)
    \/ NoFailure(IterEnd)
    \/ NoFailure(FinalRemove)
    \/ NoFailure(FinalEnd)
    \/ NoFailure(Report)
    \/ NoFailure(MainAfter)
    \/ NoFailure(WithExit)

\* The runs without an I/O failure.  The process is the only thread and always
\* takes its next step: weak fairness of the step.  A pass of a loop that
\* changes nothing is no progress under this fairness.
LiveSpec == Init /\ [][LiveNext]_vars /\ WF_vars(LiveNext)

\* ------------------------------------------------- parse_size and format alone
\* The two pure functions applied on their own: the argument is drawn at the
\* start, one step applies the function.
\* the numbers written out: nothing, 0, and 1 or 9, then zeros, then nothing or 1
NumberTexts ==
    {<<>>, <<"0">>}
    \cup {<<d>> \o [k \in 1 .. z |-> "0"] \o tl :
            d \in {"1", "9"}, z \in 0 .. MaxDigits - 2, tl \in {<<>>, <<"1">>}}
upper(text) ==
    [k \in 1 .. Len(text) |->
        CASE text[k] = "b" -> "B" [] text[k] = "k" -> "K" [] text[k] = "i" -> "I"
          [] text[k] = "m" -> "M" [] text[k] = "g" -> "G" [] text[k] = "t" -> "T"
          [] OTHER -> text[k]]
\* the suffixes parse_size knows, <<>> for none
Units == {<<>>} \cup {parse_formats[k].unit : k \in 1 .. Len(parse_formats)}
\* a unit in lower case, in upper case, and with its first letter in upper case
Cased(u) ==
    IF u = <<>> THEN {u}
    ELSE {u, upper(u), upper(SubSeq(u, 1, 1)) \o Tail(u)}
\* parse_size(n followed by u in one of its cases)
ParseSizeCalls ==
    UNION {{[fn |-> "parse_size", text |-> n \o c, n |-> n, u |-> u] :
               n \in NumberTexts, c \in Cased(u)} : u \in Units}
\* the numbers given to format, as num / den: around the unit sizes a 32-bit
\* integer reaches
FormatCalls ==
    {[fn |-> "format", num |-> (KiB ^ k) * m + d, den |-> den] :
        k \in 0 .. 2, m \in {1, KiB - 1, KiB}, d \in {-1, 0, 1}, den \in {1, 3}}

\* what the steps of the two functions leave alone, pc, call and result aside
locals ==
    <<fs, temp_dir, exc, ret, iteration, write_hash, read_hash, write_hashes,
      read_hashes, elapsed_write, elapsed_read, files, final_hash, i, to_write,
      inner_hash, path, offset, todo, reported, created, removed, written,
      emptyAtWrite, tampered, tamper_done, vanished>>

PureInit ==
    /\ call \in ParseSizeCalls \cup FormatCalls
    /\ result = None
    /\ pc = "call"
    /\ options = [size |-> 0, count |-> 0, buffer_size |-> 0, iterations |-> 0,
                  empty |-> FALSE, write_once |-> FALSE, dir |-> "dir"]
    /\ write_dt = 0
    /\ read_dt = 0
    /\ fs = EmptyDir
    /\ fs0 = fs
    /\ Locals0

\* parse_size(text) is called
CallParseSize ==
    /\ pc = "call"
    /\ call.fn = "parse_size"
    /\ result' = parse_size(call.text)
    /\ pc' = "called"
    /\ UNCHANGED <<options, write_dt, read_dt, fs0, call, locals>>

\* format(number) is called
CallFormat ==
    /\ pc = "call"
    /\ call.fn = "format"
    /\ result' = format(call.num, call.den)
    /\ pc' = "called"
    /\ UNCHANGED <<options, write_dt, read_dt, fs0, call, locals>>

PureNext ==
    \/ CallParseSize
    \/ CallFormat

PureSpec == PureInit /\ [][PureNext]_vars

\* ------------------------------------------------------------ properties
\* the step in which read() returns and the digests are compared
Compared == pc = "read" /\ pc' = "cleanup"

\* the paths of the configured indices
IndexPaths == {Path(k) : k \in 0 .. options.count - 1}

\* C1: when the directory was empty at the start of the write phase and no file
\* was changed since, the read phase returns the digest the write phase
\* returned and the comparison records nothing.
C1_WriteThenReadAgree ==
    [][(Compared /\ emptyAtWrite /\ tampered = {})
         => /\ read_hash' = write_hash'
            /\ write_hashes' = write_hashes
            /\ read_hashes' = read_hashes]_vars

\* C1 witness: the second iteration's read phase agreed with a write phase that
\* wrote two one-byte files of different content into an empty directory.
C1_Witness ==
    /\ pc = "cleanup"
    /\ emptyAtWrite
    /\ tampered = {}
    /\ options.count = 2
    /\ options.size = 1
    /\ iteration = 1
    /\ read_hash = write_hash
    /\ write_hash # hex(ZeroDigest)
    /\ write_hashes = {}

WriteOnceStep ==
    /\ removed' # removed => pc = "final_cleanup" /\ iteration = options.iterations
    /\ \A n \in Names : created'[n] <= 1 /\ removed'[n] <= 1
    /\ pc' = "report" => \A n \in IndexPaths : created'[n] = 1 /\ removed'[n] = 1

\* no {index}.bin is in the directory when the first write phase starts
NoIndexFileBefore == options.empty \/ IndexPaths \cap DOMAIN fs0 = {}

\* C3 as stated: with write_once and iterations >= 1 every {index}.bin is
\* created exactly once, none is removed before the loop has ended, and each is
\* removed exactly once by the time the removal after the loop is done.
C3_Original ==
    [][(options.write_once /\ options.iterations >= 1) => WriteOnceStep]_vars

\* C3 amended: the same, when no {index}.bin is in the directory at the start of
\* the first write phase.
C3_WriteOnceCreatesOnce ==
    [][(options.write_once /\ options.iterations >= 1 /\ NoIndexFileBefore)
         => WriteOnceStep]_vars

\* C3 witness: a write_once run of two iterations over two files has finished
\* its removal, each file created once and removed once.
C3_Witness ==
    /\ pc = "report"
    /\ options.write_once
    /\ options.iterations = 2
    /\ options.count = 2
    /\ \A n \in IndexPaths : created[n] = 1 /\ removed[n] = 1

\* C4 as stated: a run whose write or read time totals zero, a run of zero
\* iterations included, does not end with a division error.
C4_ZeroElapsedNoDivisionError ==
    (pc = "exit" /\ (elapsed_write = 0 \/ elapsed_read = 0) /\ exc \notin IOErrors)
        => exc # "ZeroDivisionError"

\* C5 as stated: a run with size 0, at least one file, all of them created by
\* the run, at least one iteration and non-zero elapsed times ends without an
\* error, its report printed.
C5_ZeroSizeCompletes ==
    (/\ pc = "exit"
     /\ options.size = 0
     /\ options.count >= 1
     /\ options.iterations >= 1
     /\ elapsed_write > 0
     /\ elapsed_read > 0
     /\ NoIndexFileBefore
     /\ exc \notin IOErrors)
        => exc = "" /\ reported

\* C6 as stated: a run that recorded a mismatch, and in which no I/O failed,
\* runs every iteration, prints the report and ends with status 0.
C6_MismatchRunCompletes ==
    (pc = "exit" /\ write_hashes # {} /\ exc \notin IOErrors)
        => /\ iteration = options.iterations
           /\ reported
           /\ exit_code = 0

\* C7: when the loop is about to start iteration 0 the directory is empty if
\* options.empty is set, and is as it was before the run if it is not.
C7_EmptyBeforeFirstWrite ==
    (pc = "loop" /\ iteration = 0)
        => IF options.empty THEN DOMAIN fs = {} ELSE fs = fs0

\* C7 witness: two entries were in the directory and none is left when
\* iteration 0 is about to start.
C7_Witness ==
    /\ pc = "loop"
    /\ iteration = 0
    /\ options.empty
    /\ Cardinality(DOMAIN fs0) = 2
    /\ DOMAIN fs = {}

\* the bytes read() feeds the sha1 object for entry n
HashedBy(n) == IF options.buffer_size = 0 THEN <<>> ELSE fs[n]

RECURSIVE FoldDigests(_)
\* the digests of the entries S folded with combine in one fixed order
FoldDigests(S) ==
    IF S = {} THEN ZeroDigest
    ELSE LET n == CHOOSE m \in S : TRUE
         IN combine(FoldDigests(S \ {n}), Sha1(HashedBy(n)))

\* C8: between two files of a read phase, whatever the order the entries were
\* taken in, final_hash is the fold of the digests of the entries read so far
\* in one fixed order; and on the digests of the listed entries combine is
\* commutative and associative, with bytes(20) as identity.
C8_OrderIndependent ==
    pc = "read" =>
        /\ final_hash = FoldDigests(DOMAIN fs \ todo)
        /\ todo = DOMAIN fs =>
              LET D == {Sha1(HashedBy(n)) : n \in DOMAIN fs}
              IN \A a \in D :
                    /\ combine(ZeroDigest, a) = a
                    /\ \A b \in D :
                          /\ combine(a, b) = combine(b, a)
                          /\ \A c \in D :
                                /\ combine(combine(a, b), c)
                                     = combine(a, combine(b, c))
                                /\ combine(combine(a, b), c)
                                     = combine(combine(a, c), b)

\* C8 witness: a read phase has folded three entries of which two differ.
C8_Witness ==
    /\ pc = "read"
    /\ todo = {}
    /\ Cardinality(DOMAIN fs) = 3
    /\ \E m, n \in DOMAIN fs : HashedBy(m) # HashedBy(n)
    /\ final_hash # ZeroDigest

\* C9: when no directory was given, the temporary directory and all it held are
\* gone once the process has ended, with or without an exception.
C9_TempDirRemoved ==
    (pc = "exit" /\ options.dir = "None") => ~temp_dir /\ DOMAIN fs = {}

\* C9 witness: a run in a temporary directory ended with an I/O error after it
\* had created a file it never removed.
C9_Witness ==
    /\ pc = "exit"
    /\ options.dir = "None"
    /\ exc = "OSError"
    /\ created[Path(0)] = 1
    /\ removed[Path(0)] = 0
    /\ ~temp_dir

\* C10: an I/O failure ends the process at once, with no step left to take, and
\* one inside run_benchmark (write phase, read phase or removal of the files)
\* ends it with no report printed; once a listed entry is gone the read phase
\* never returns: the process is still reading, or has ended with an I/O error.
C10_IOFailureAborts ==
    /\ [](exc \in IOErrors => pc = "exit" /\ ~ENABLED Next)
    /\ [](vanished => \/ pc \in {"read", "read_chunk"}
                      \/ pc = "exit" /\ exc \in IOErrors /\ ~reported)
    /\ [][(exc' \in IOErrors /\ ret # "with_exit")
            => /\ ~reported'
               /\ iteration' = iteration
               /\ created' = created
               /\ removed' = removed]_vars

\* C10 witness: an entry vanished after the listing, the open raised, and the
\* run ended in its first iteration without a report.
C10_Witness ==
    /\ vanished
    /\ pc = "exit"
    /\ exc = "FileNotFoundError"
    /\ ~reported
    /\ iteration = 0
    /\ options.iterations = 2

\* the loop of run_benchmark is exhausted with the index at options.iterations
LoopDone == pc = "final_cleanup" /\ iteration = options.iterations

\* C11 as stated: every run in which no I/O operation fails, whatever the size,
\* count, buffer size and iterations, eventually leaves the loop of run_benchmark
\* with the iteration index at options.iterations.
C11_RunTerminates == <>LoopDone

RECURSIVE WrittenDigest(_)
\* the digests of the files S as the write phase wrote them, folded with combine
WrittenDigest(S) ==
    IF S = {} THEN ZeroDigest
    ELSE LET n == CHOOSE m \in S : TRUE
         IN combine(WrittenDigest(S \ {n}), Sha1(written[n]))

\* C12: in the write phase, when no I/O fails, an index whose path exists is
\* passed over with the directory, the tracked set and the aggregate left as they
\* are; an index whose path does not exist is created and added to the tracked
\* set, and when its file is closed the digest of its content is combined into
\* the aggregate; so between two indices the aggregate is the fold of the
\* digests of the files this phase created, all of them tracked.
C12_ExistingIndexSkipped ==
    /\ [][(pc = "write" /\ i < options.count /\ exc' = "") =>
            IF Path(i) \in DOMAIN fs
            THEN /\ fs' = fs
                 /\ files' = files
                 /\ final_hash' = final_hash
                 /\ created' = created
                 /\ written' = written
                 /\ i' = i + 1
                 /\ pc' = "write"
            ELSE /\ Path(i) \in DOMAIN fs'
                 /\ DOMAIN fs' = DOMAIN fs \cup {Path(i)}
                 /\ \A n \in DOMAIN fs : fs'[n] = fs[n]
                 /\ files' = files \cup {Path(i)}
                 /\ created' = [created EXCEPT ![Path(i)] = @ + 1]
                 /\ path' = Path(i)
                 /\ pc' = "write_chunk"]_vars
    /\ [][(pc = "write_chunk" /\ pc' = "write") =>
            /\ path = Path(i)
            /\ final_hash' = combine(final_hash, Sha1(fs[path]))
            /\ i' = i + 1]_vars
    /\ [](pc = "write" =>
            /\ DOMAIN written \subseteq files
            /\ DOMAIN written \subseteq {Path(k) : k \in 0 .. i - 1}
            /\ final_hash = WrittenDigest(DOMAIN written))

\* C12 witness: of two indices the first was in the directory before the run and
\* was passed over, the second was created; the write digest is the digest of
\* the second file alone and the first file is as it was.
C12_Witness ==
    /\ pc = "read_list"
    /\ ~options.empty
    /\ options.count = 2
    /\ options.size = 1
    /\ iteration = 0
    /\ Path(0) \in DOMAIN fs0
    /\ fs[Path(0)] = fs0[Path(0)]
    /\ files = {Path(1)}
    /\ created[Path(0)] = 0
    /\ write_hash = hex(Sha1(fs[Path(1)]))

\* C13: while a file is being written what it holds is what was hashed, and its
\* length and the bytes left add up to options.size; every pass of the chunk loop
\* that changes anything appends one chunk of 1 to buffer_size bytes to the file
\* and feeds the same bytes to the hash; and when the file is closed it holds
\* exactly options.size bytes, whose digest is combined into the aggregate.
C13_FileWrittenInChunks ==
    /\ [](pc = "write_chunk" =>
            /\ path = Path(i)
            /\ inner_hash = fs[path]
            /\ to_write >= 0
            /\ Len(fs[path]) + to_write = options.size)
    /\ [][(pc = "write_chunk" /\ pc' = "write_chunk") =>
            LET old == Len(fs[path])
                num_bytes == Len(fs'[path]) - old
                file_content == SubSeq(fs'[path], old + 1, old + num_bytes)
            IN /\ num_bytes >= 1
               /\ num_bytes <= options.buffer_size
               /\ fs'[path] = fs[path] \o file_content
               /\ inner_hash' = inner_hash \o file_content
               /\ to_write' = to_write - num_bytes
               /\ \A n \in DOMAIN fs \ {path} : fs'[n] = fs[n]]_vars
    /\ [][(pc = "write_chunk" /\ pc' = "write") =>
            /\ Len(fs[path]) = options.size
            /\ fs' = fs
            /\ written'[path] = fs[path]
            /\ final_hash' = combine(final_hash, Sha1(inner_hash))]_vars

\* C13 witness: a file of two bytes has been written in two chunks of one byte,
\* the two bytes different, and is about to be closed.
C13_Witness ==
    /\ pc = "write_chunk"
    /\ options.size = 2
    /\ options.buffer_size = 1
    /\ to_write = 0
    /\ Len(fs[path]) = 2
    /\ fs[path][1] # fs[path][2]
    /\ inner_hash = fs[path]

\* the directory as every write phase of a run without write_once finds it
StartDir == IF options.empty THEN EmptyDir ELSE fs0

\* the paths a write phase that starts in StartDir creates
StartPaths == IndexPaths \ DOMAIN StartDir

\* C14: without write_once, whenever the loop is about to start an iteration
\* (or has ended) the tracked set is empty and the directory is as it was when
\* the first write phase started, every path the write phases create having been
\* created and removed once per iteration done; and every write phase has
\* created the same set of paths when it returns.
C14_IterationRestoresDirectory ==
    ~options.write_once =>
        /\ pc = "loop" =>
              /\ files = {}
              /\ fs = StartDir
              /\ \A n \in StartPaths :
                    created[n] = iteration /\ removed[n] = iteration
              /\ \A n \in Names \ StartPaths :
                    created[n] = 0 /\ removed[n] = 0
        /\ pc = "read_list" =>
              /\ files = StartPaths
              /\ DOMAIN written = StartPaths
              /\ DOMAIN fs = DOMAIN StartDir \cup StartPaths

\* C14 witness: the second iteration is about to start; the first created two
\* files next to an entry that was there before the run, and removed them.
C14_Witness ==
    /\ ~options.write_once
    /\ ~options.empty
    /\ pc = "loop"
    /\ iteration = 1
    /\ options.iterations = 2
    /\ options.count = 2
    /\ DOMAIN fs0 = {Other}
    /\ fs = fs0
    /\ files = {}
    /\ \A n \in IndexPaths : created[n] = 1 /\ removed[n] = 1

\* C15: with write_once, a write phase is entered in iteration 0 only; from
\* iteration 1 on no step is in the write phase, none changes write_hash or
\* elapsed_write, no file is created, an iteration goes from the top of the loop
\* straight to the read phase, and the comparison at the end of the read phase
\* is against that unchanged write_hash.
C15_WriteOnceWritesInFirstIteration ==
    /\ [](options.write_once /\ pc \in {"write", "write_chunk"} => iteration = 0)
    /\ [][(options.write_once /\ iteration >= 1) =>
            /\ write_hash' = write_hash
            /\ write_hash # None
            /\ elapsed_write' = elapsed_write
            /\ created' = created
            /\ pc' \notin {"write", "write_chunk"}
            /\ (pc = "loop" /\ iteration < options.iterations) => pc' = "read_list"
            /\ Compared =>
                  IF read_hash' # write_hash
                  THEN /\ write_hashes' = write_hashes \cup {write_hash}
                       /\ read_hashes' = read_hashes \cup {read_hash'}
                  ELSE /\ write_hashes' = write_hashes
                       /\ read_hashes' = read_hashes]_vars

\* C15 witness: a write_once run has compared in its second iteration; the one
\* write phase took one tick and created each of the two files once.
C15_Witness ==
    /\ options.write_once
    /\ pc = "cleanup"
    /\ iteration = 1
    /\ options.count = 2
    /\ options.size = 1
    /\ write_dt = 1
    /\ elapsed_write = 1
    /\ elapsed_read = 2
    /\ read_hash = write_hash
    /\ \A n \in IndexPaths : created[n] = 1

\* C16: the mismatch sets start empty and change only in the step that compares
\* the digests of an iteration: when the two differ the write digest joins the
\* write set and the read digest the read set (a digest already there adds
\* nothing), when they are equal both sets stay as they are; and the two sets
\* are both empty or both non-empty.
C16_MismatchSets ==
    /\ write_hashes = {} /\ read_hashes = {}
    /\ []((write_hashes = {}) <=> (read_hashes = {}))
    /\ [][IF Compared
           THEN IF read_hash' # write_hash'
                THEN /\ write_hashes' = write_hashes \cup {write_hash'}
                     /\ read_hashes' = read_hashes \cup {read_hash'}
                ELSE /\ write_hashes' = write_hashes
                     /\ read_hashes' = read_hashes
           ELSE /\ write_hashes' = write_hashes
                /\ read_hashes' = read_hashes]_vars

\* C16 witness: two iterations have ended, both with the same pair of differing
\* digests, and each set holds one digest.
C16_Witness ==
    /\ pc = "loop"
    /\ iteration = 2
    /\ read_hash # write_hash
    /\ write_hashes = {write_hash}
    /\ read_hashes = {read_hash}

\* C17 as stated: for every number that is not negative format raises nothing
\* and returns the largest unit whose size is at most the number, so that the
\* number over the unit size is at least 1 and, but for TiB, below 1024.
C17_FormatTotalOnNonNegative ==
    (pc = "called" /\ call.fn = "format" /\ call.num >= 0) =>
        /\ result.raises = ""
        /\ ~LessThanPow(call.num \div call.den, result.exp)
        /\ result.exp < 4 => LessThanPow(call.num \div call.den, result.exp + 1)
        /\ \E k \in 1 .. Len(formats) :
              formats[k].exp = result.exp /\ formats[k].unit = result.unit

\* n times the byte size the claim gives unit u: base 1000 for the two-letter
\* units, base 1024 for the three-letter ones, 1 for b and for no unit
ClaimedBytes(n, u) ==
    LET exp == CASE u = <<>> -> 0
                 [] u[1] = "b" -> 0
                 [] u[1] = "k" -> 1
                 [] u[1] = "m" -> 2
                 [] u[1] = "g" -> 3
                 [] u[1] = "t" -> 4
    IN Times(Decimal(n, <<>>), IF Len(u) = 3 THEN 1024 ELSE 1000, exp)

\* C18 as stated: parse_size of a non-negative integer n followed by a unit u in
\* any case returns n times the byte size of u, and of n alone returns n.
C18_Original ==
    (pc = "called" /\ call.fn = "parse_size" /\ IsDigits(call.n)) =>
        /\ result.raises = ""
        /\ result.value = ClaimedBytes(call.n, call.u)

\* C18 amended: the same, when n is given alone or n times the byte size of u is
\* below 2 ** 53.
C18_ParseSizeExactBelowTwoTo53 ==
    (/\ pc = "called"
     /\ call.fn = "parse_size"
     /\ IsDigits(call.n)
     /\ call.u = <<>> \/ Len(ClaimedBytes(call.n, call.u)) <= MantissaBits) =>
        /\ result.raises = ""
        /\ result.value = ClaimedBytes(call.n, call.u)

\* C18 witness: parse_size("1001Kib") returned 1001 * 1024.
C18_Witness ==
    /\ pc = "called"
    /\ call.fn = "parse_size"
    /\ call.text = <<"1", "0", "0", "1", "K", "i", "b">>
    /\ result.raises = ""
    /\ result.value = Bits(1001 * 1024)

\* C19: without options.empty no step of the run removes or changes an entry
\* that was in the directory before the run (a step in which something outside
\* removes an entry is not the run's); a removal by run_benchmark is of a path in
\* files that write() created and that was not there before the run; and once
\* the removal after the loop is done, and at the end of a run in which no I/O
\* failed, with or without write_once, the directory is as it was before the run.
C19_PreexistingEntriesKept ==
    /\ [][(~options.empty /\ vanished' = vanished) =>
            \A n \in DOMAIN fs0 \cap DOMAIN fs :
                n \in DOMAIN fs' /\ fs'[n] = fs[n]]_vars
    /\ [][~options.empty =>
            \A n \in Names :
                removed'[n] # removed[n] =>
                    /\ n \in files
                    /\ created[n] = removed[n] + 1
                    /\ n \notin DOMAIN fs0
                    /\ fs' = Remove(fs, n)]_vars
    /\ []((/\ ~options.empty
           /\ \/ pc \in {"report", "returned"}
              \/ pc = "exit" /\ exc \notin IOErrors)
            => fs = fs0)

\* C19 witness: a run over two indices in a directory that held 0.bin and
\* another entry has ended normally; it created and removed 1.bin and the
\* directory is as it was.
C19_Witness ==
    /\ pc = "exit"
    /\ exc = ""
    /\ reported
    /\ ~options.empty
    /\ options.count = 2
    /\ DOMAIN fs0 = {Path(0), Other}
    /\ fs = fs0
    /\ created[Path(0)] = 0
    /\ created[Path(1)] = options.iterations
    /\ removed[Path(1)] = created[Path(1)]
    /\ options.iterations = 2

====
